---------------------------- MODULE Spec2Model ----------------------------
(***************************************************************************)
(* VistorIA Pro (src/app.py): a Streamlit script that sends inspection     *)
(* photos to a vision model, recovers a JSON record from each answer,      *)
(* assembles a report in session state and renders it as a PDF.            *)
(*                                                                         *)
(* Text is modelled as a sequence of one-character strings.  Python's None *)
(* is PyNone.  A parsed JSON value is a tagged pair: <<"num", n>>,         *)
(* <<"str", chars>>, <<"bool", b>>, <<"arr", values>>, <<"obj", f>> with f *)
(* a function from keys to values; JSON null parses to PyNone, as          *)
(* json.loads returns None for it.                                         *)
(***************************************************************************)
EXTENDS Integers, Sequences, FiniteSets, TLC

PyNone == <<"None">>

Min(a, b) == IF a <= b THEN a ELSE b

VARIABLES
    report, analise_pronta,   \* st.session_state
    api_key, uploaded_files,  \* widget values this script run reads
    event,                    \* the user event that started this script run
    runShownDisabled,         \* the run button as the last script run drew it
    model_name, notice,       \* discovery: the model chosen, the message shown
    run,                      \* the value st.button returned for the run button
    pc,                       \* position of the script run
    items, idx, summary_text, \* locals of the run branch
    calls,                    \* provider calls of this script run, in order
    outcomes, sumOutcome,     \* what image decoding and the provider did
    shown                     \* what the display section of this run showed

\* extract_json on one text: the text and its parts, the result, the position
VARIABLES exPre, exCore, exSuf, exText, exRes, expc

\* format_status on one value: the value, the code or word it was written
\* from (before padding and casing), the result, the position
VARIABLES stValue, stBase, stRes, stpc

\* build_pdf_bytes on one report: the report, the blocks of each item
\* section, the story handed to doc.build, the position
VARIABLES pdfReport, pdfSections, pdfStory, pdfpc

\* fit_image_preserve_aspect on one image and one box: the pixel size and
\* the box, the draw size, the position
VARIABLES fitIn, fitRes, fitpc

\* image_to_optimized_jpeg_bytes on one image, then on its own output: the
\* input size and max_side, the size after each call, the position
VARIABLES jpgIn, jpgRes, jpgAgain, jpgpc

\* split_summary_sections on one text: the text, the result, the position
VARIABLES splText, splRes, splpc

sessVars == <<report, analise_pronta, api_key, uploaded_files, event,
              runShownDisabled, model_name, notice, run, pc, items, idx,
              summary_text, calls, outcomes, sumOutcome, shown>>

exVars == <<exPre, exCore, exSuf, exText, exRes, expc>>

stVars == <<stValue, stBase, stRes, stpc>>

pdfVars == <<pdfReport, pdfSections, pdfStory, pdfpc>>

fitVars == <<fitIn, fitRes, fitpc>>

jpgVars == <<jpgIn, jpgRes, jpgAgain, jpgpc>>

splVars == <<splText, splRes, splpc>>

vars == <<sessVars, exVars, stVars, pdfVars, fitVars, jpgVars, splVars>>

\* the variables of the function-level specifications, untouched by a session
pureVars == <<exVars, stVars, pdfVars, fitVars, jpgVars, splVars>>

--------------------------------------------------------------------------
(* json.loads, restricted to the characters the model draws texts from:    *)
(* whitespace, objects, arrays, strings without escapes, integers and the  *)
(* literals null, true, false.                                             *)

\* json.decoder.WHITESPACE is [ \t\n\r]*
JsonWs == {" ", "\t", "\n", "\r"}

\* str.strip() with no argument strips every str.isspace() character:
\* the JSON whitespace and also \f, \v, ...
PyWs == JsonWs \cup {"\f"}

Digits == {"0", "1", "2", "3", "4", "5", "6", "7", "8", "9"}

DigitVal(c) ==
    CASE c = "0" -> 0 [] c = "1" -> 1 [] c = "2" -> 2 [] c = "3" -> 3
      [] c = "4" -> 4 [] c = "5" -> 5 [] c = "6" -> 6 [] c = "7" -> 7
      [] c = "8" -> 8 [] c = "9" -> 9

RECURSIVE IntOf(_)
IntOf(ds) ==
    IF ds = <<>> THEN 0
    ELSE 10 * IntOf(SubSeq(ds, 1, Len(ds) - 1)) + DigitVal(ds[Len(ds)])

RECURSIVE SkipWs(_, _)
SkipWs(s, i) ==
    IF i <= Len(s) /\ s[i] \in JsonWs THEN SkipWs(s, i + 1) ELSE i

RECURSIVE ScanDigits(_, _)
ScanDigits(s, i) ==
    IF i <= Len(s) /\ s[i] \in Digits THEN ScanDigits(s, i + 1) ELSE i

ParseFail == [ok |-> FALSE, val |-> PyNone, pos |-> 0]

ParseOk(v, p) == [ok |-> TRUE, val |-> v, pos |-> p]

StartsWith(s, i, lit) ==
    /\ i + Len(lit) - 1 <= Len(s)
    /\ SubSeq(s, i, i + Len(lit) - 1) = lit

\* NUMBER_RE: -?(0|[1-9][0-9]*); the match stops where the pattern stops
ParseNumber(s, i) ==
    LET neg == i <= Len(s) /\ s[i] = "-"
        j   == IF neg THEN i + 1 ELSE i
    IN  IF j > Len(s) \/ s[j] \notin Digits THEN ParseFail
        ELSE LET e == IF s[j] = "0" THEN j + 1 ELSE ScanDigits(s, j)
                 n == IntOf(SubSeq(s, j, e - 1))
             IN  ParseOk(<<"num", IF neg THEN 0 - n ELSE n>>, e)

\* index of the closing quote of a string whose opening quote is before i,
\* 0 when the text ends or a control character comes first (strict mode)
RECURSIVE ClosingQuote(_, _)
ClosingQuote(s, i) ==
    IF i > Len(s) THEN 0
    ELSE IF s[i] = "\"" THEN i
    ELSE IF s[i] \in {"\t", "\n", "\r", "\f"} THEN 0
    ELSE ClosingQuote(s, i + 1)

\* s[i] is the opening quote
ParseString(s, i) ==
    LET j == ClosingQuote(s, i + 1)
    IN  IF j = 0 THEN ParseFail
        ELSE ParseOk(<<"str", SubSeq(s, i + 1, j - 1)>>, j + 1)

RECURSIVE ParseValue(_, _)
RECURSIVE ParseMembers(_, _, _)
RECURSIVE ParseElems(_, _, _)

\* json.scanner.py_make_scanner._scan_once
ParseValue(s, i) ==
    IF i > Len(s) THEN ParseFail
    ELSE IF s[i] = "\"" THEN ParseString(s, i)
    ELSE IF s[i] = "{" THEN
        LET j == SkipWs(s, i + 1)
        IN  IF j <= Len(s) /\ s[j] = "}" THEN ParseOk(<<"obj", <<>>>>, j + 1)
            ELSE ParseMembers(s, j, <<>>)
    ELSE IF s[i] = "[" THEN
        LET j == SkipWs(s, i + 1)
        IN  IF j <= Len(s) /\ s[j] = "]" THEN ParseOk(<<"arr", <<>>>>, j + 1)
            ELSE ParseElems(s, j, <<>>)
    ELSE IF StartsWith(s, i, <<"n", "u", "l", "l">>) THEN ParseOk(PyNone, i + 4)
    ELSE IF StartsWith(s, i, <<"t", "r", "u", "e">>) THEN
        ParseOk(<<"bool", TRUE>>, i + 4)
    ELSE IF StartsWith(s, i, <<"f", "a", "l", "s", "e">>) THEN
        ParseOk(<<"bool", FALSE>>, i + 5)
    ELSE ParseNumber(s, i)

\* json.decoder.JSONObject from the first key on: i is where a key must
\* start, acc the dict built so far (a later duplicate key overwrites)
ParseMembers(s, i, acc) ==
    IF i > Len(s) \/ s[i] # "\"" THEN ParseFail
    ELSE LET k == ParseString(s, i)
         IN  IF ~k.ok THEN ParseFail
             ELSE LET c == SkipWs(s, k.pos)
                  IN  IF c > Len(s) \/ s[c] # ":" THEN ParseFail
                      ELSE LET v == ParseValue(s, SkipWs(s, c + 1))
                           IN  IF ~v.ok THEN ParseFail
                               ELSE LET d   == (k.val[2] :> v.val) @@ acc
                                        e   == SkipWs(s, v.pos)
                                    IN  IF e > Len(s) THEN ParseFail
                                        ELSE IF s[e] = "}" THEN
                                            ParseOk(<<"obj", d>>, e + 1)
                                        ELSE IF s[e] = "," THEN
                                            ParseMembers(s, SkipWs(s, e + 1), d)
                                        ELSE ParseFail

\* json.decoder.JSONArray from the first element on
ParseElems(s, i, acc) ==
    LET v == ParseValue(s, i)
    IN  IF ~v.ok THEN ParseFail
        ELSE LET a == Append(acc, v.val)
                 e == SkipWs(s, v.pos)
             IN  IF e > Len(s) THEN ParseFail
                 ELSE IF s[e] = "]" THEN ParseOk(<<"arr", a>>, e + 1)
                 ELSE IF s[e] = "," THEN ParseElems(s, SkipWs(s, e + 1), a)
                 ELSE ParseFail

\* json.loads(s): one value, whitespace allowed around it, nothing after it.
\* ok = FALSE stands for the JSONDecodeError json.loads raises.
JsonLoads(s) ==
    LET v == ParseValue(s, SkipWs(s, 1))
    IN  IF v.ok /\ SkipWs(s, v.pos) = Len(s) + 1 THEN v ELSE ParseFail

IsDict(v) == v[1] = "obj"

--------------------------------------------------------------------------
(* extract_json                                                            *)

RECURSIVE LStrip(_)
LStrip(s) == IF s # <<>> /\ s[1] \in PyWs THEN LStrip(Tail(s)) ELSE s

RECURSIVE RStrip(_)
RStrip(s) ==
    IF s # <<>> /\ s[Len(s)] \in PyWs THEN RStrip(SubSeq(s, 1, Len(s) - 1))
    ELSE s

\* str.strip()
Strip(s) == RStrip(LStrip(s))

\* (text or "")
OrEmpty(text) == IF text = PyNone THEN <<>> ELSE text

Positions(s, c) == {i \in 1..Len(s) : s[i] = c}

SetMin(S) == CHOOSE x \in S : \A y \in S : x <= y

SetMax(S) == CHOOSE x \in S : \A y \in S : y <= x

\* a faulty variant of BraceMatch: the match ends at the first "}"
BraceMatch_non_greedy(raw) ==
    LET opens == Positions(raw, "{")
    IN  IF opens = {} THEN <<>>
        ELSE LET first  == SetMin(opens)
                 closes == {j \in Positions(raw, "}") : j > first}
             IN  IF closes = {} THEN <<>>
                 ELSE SubSeq(raw, first, SetMin(closes))

\* re.search(r"\{.*\}", raw, flags=re.DOTALL): the leftmost match, greedy,
\* runs from the first "{" to the last "}" after it; <<>> stands for no match
\* (a match is never empty)
BraceMatch(raw) ==
    LET opens == Positions(raw, "{")
    IN  IF opens = {} THEN <<>>
        ELSE LET first  == SetMin(opens)
                 closes == {j \in Positions(raw, "}") : j > first}
             IN  IF closes = {} THEN <<>>
                 ELSE SubSeq(raw, first, SetMax(closes))

\* a faulty variant of extract_json: the brace scan is tried first
extract_json_scan_first(text) ==
    LET raw       == Strip(OrEmpty(text))
        candidate == BraceMatch(raw)
        whole     == JsonLoads(raw)
        inner     == JsonLoads(candidate)
    IN  IF candidate # <<>> /\ inner.ok
        THEN [obj |-> inner.val, ok |-> TRUE, raw |-> raw]
        ELSE IF whole.ok THEN [obj |-> whole.val, ok |-> TRUE, raw |-> raw]
        ELSE [obj |-> PyNone, ok |-> FALSE, raw |-> raw]

\* extract_json(text) -> (obj, ok, raw)
extract_json(text) ==
    LET raw       == Strip(OrEmpty(text))
        whole     == JsonLoads(raw)
        candidate == BraceMatch(raw)
        inner     == JsonLoads(candidate)
    IN  IF whole.ok THEN [obj |-> whole.val, ok |-> TRUE, raw |-> raw]
        ELSE IF candidate # <<>> THEN
            IF inner.ok THEN [obj |-> inner.val, ok |-> TRUE, raw |-> raw]
            ELSE [obj |-> PyNone, ok |-> FALSE, raw |-> raw]
        ELSE [obj |-> PyNone, ok |-> FALSE, raw |-> raw]

--------------------------------------------------------------------------
(* extract_json applied to bounded texts: a core fragment between a prefix *)
(* and a suffix.                                                           *)

\* total length of prefix plus suffix in the exhaustive part of the inputs
MaxPad == 3

PadAlphabet == {" ", "a", "{", "}", "\""}

StringsUpTo(A, n) == UNION {[1..k -> A] : k \in 0..n}

\* the fragments a text is built around: JSON objects, other JSON values,
\* malformed JSON and plain prose
Cores ==
    { <<>>,
      <<"{", "}">>,
      <<"{", "\"", "a", "\"", ":", "1", "}">>,
      <<"{", "\"", "a", "\"", ":", " ", "{", "}", "}">>,
      <<"{", "\"", "a", "\"", ":", "1", ",", "\"", "a", "\"", ":", "0", "}">>,
      <<"{", "\"", "a", "\"", ":", "[", "1", ",", "n", "u", "l", "l", "]", "}">>,
      <<"n", "u", "l", "l">>,
      <<"t", "r", "u", "e">>,
      <<"1", "0">>,
      <<"-", "0">>,
      <<"0", "1">>,
      <<"\"", "a", "\"">>,
      <<"[", "]">>,
      <<"[", "{", "}", "]">>,
      <<"{", "\"", "a", "\"">>,
      <<"{", "a", "}">>,
      <<"{", "\"", "a", "\"", ":", "}">>,
      <<"{", "\"", "a", "\"", ":", "1", ",", "}">>,
      <<"a", " ", "a">> }

\* prefix/suffix pairs beyond the exhaustive ones: array brackets, line
\* breaks, a form feed (whitespace to str.strip, not to JSON), a code fence
ExtraPads ==
    { <<<<"[">>, <<"]">>>>,
      <<<<"\n">>, <<"\n">>>>,
      <<<<"\f">>, <<>>>>,
      <<<<>>, <<"\t", "\f">>>>,
      <<<<"~", "~", "~", "\n">>, <<"\n", "~", "~", "~">>>> }

Pads ==
    {pp \in StringsUpTo(PadAlphabet, MaxPad) \X StringsUpTo(PadAlphabet, MaxPad) :
        Len(pp[1]) + Len(pp[2]) <= MaxPad} \cup ExtraPads

exIdle ==
    /\ exPre = <<>> /\ exCore = <<>> /\ exSuf = <<>>
    /\ exText = <<>> /\ exRes = PyNone /\ expc = "off"

\* the text is the answer of the provider: a str, or None
ExtractInit ==
    /\ \E pp \in Pads, c \in Cores :
          /\ exPre = pp[1] /\ exCore = c /\ exSuf = pp[2]
          /\ exText \in {pp[1] \o c \o pp[2]} \cup
                        (IF pp = <<<<>>, <<>>>> /\ c = <<>> THEN {PyNone} ELSE {})
    /\ exRes = PyNone
    /\ expc = "call"

ExtractCall ==
    /\ expc = "call"
    /\ UNCHANGED <<sessVars, stVars, pdfVars, fitVars, jpgVars, splVars>>
    /\ exRes' = extract_json(exText)
    /\ expc' = "done"
    /\ UNCHANGED <<exPre, exCore, exSuf, exText>>

--------------------------------------------------------------------------
(* format_status and STATUS_MAP.  The status glyphs are one-character      *)
(* tokens; the a-tilde and a-acute of the last label are written a.        *)

UpperLetters ==
    <<"A", "B", "C", "D", "E", "F", "G", "H", "I", "J", "K", "L", "M",
      "N", "O", "P", "Q", "R", "S", "T", "U", "V", "W", "X", "Y", "Z">>

LowerLetters ==
    <<"a", "b", "c", "d", "e", "f", "g", "h", "i", "j", "k", "l", "m",
      "n", "o", "p", "q", "r", "s", "t", "u", "v", "w", "x", "y", "z">>

LetterIndex(c, letters) == CHOOSE k \in 1..Len(letters) : letters[k] = c

LowerChar(c) ==
    IF \E k \in 1..Len(UpperLetters) : UpperLetters[k] = c
    THEN LowerLetters[LetterIndex(c, UpperLetters)]
    ELSE c

UpperChar(c) ==
    IF \E k \in 1..Len(LowerLetters) : LowerLetters[k] = c
    THEN UpperLetters[LetterIndex(c, LowerLetters)]
    ELSE c

\* str.lower()
Lower(s) == [k \in 1..Len(s) |-> LowerChar(s[k])]

Verde == <<"v", "e", "r", "d", "e">>

Amarelo == <<"a", "m", "a", "r", "e", "l", "o">>

Vermelho == <<"v", "e", "r", "m", "e", "l", "h", "o">>

NaoIdentificavel ==
    <<"n", "a", "o", "_", "i", "d", "e", "n", "t", "i", "f", "i", "c", "a",
      "v", "e", "l">>

DotGreen == "(green circle)"

DotYellow == "(yellow circle)"

DotRed == "(red circle)"

DotWhite == "(white circle)"

LabelBom == <<"B", "o", "m">>

LabelRegular == <<"R", "e", "g", "u", "l", "a", "r">>

LabelRuim == <<"R", "u", "i", "m">>

LabelNaoIdentificavel ==
    <<"N", "a", "o", " ", "i", "d", "e", "n", "t", "i", "f", "i", "c", "a",
      "v", "e", "l">>

StatusCodes == {Verde, Amarelo, Vermelho, NaoIdentificavel}

\* STATUS_MAP: code -> (dot, label, background)
STATUS_MAP(code) ==
    CASE code = Verde            -> <<DotGreen, LabelBom, "#DCFCE7">>
      [] code = Amarelo          -> <<DotYellow, LabelRegular, "#FEF9C3">>
      [] code = Vermelho         -> <<DotRed, LabelRuim, "#FEE2E2">>
      [] code = NaoIdentificavel -> <<DotWhite, LabelNaoIdentificavel, "#F3F4F6">>

\* a faulty variant of format_status: no lower()
format_status_no_lower(value) ==
    IF value = PyNone \/ value = <<>> THEN <<>>
    ELSE LET v     == Strip(value)
             entry == IF v \in StatusCodes THEN STATUS_MAP(v)
                      ELSE <<DotWhite, v, "#F3F4F6">>
         IN  <<entry[1], " ">> \o entry[2]

\* format_status(value), value a str or None
format_status(value) ==
    IF value = PyNone \/ value = <<>> THEN <<>>
    ELSE LET v     == Lower(Strip(value))
             entry == IF v \in StatusCodes THEN STATUS_MAP(v)
                      ELSE <<DotWhite, v, "#F3F4F6">>
         IN  <<entry[1], " ">> \o entry[2]

\* whitespace around a status value
MaxStatusPad == 2

StatusPads == StringsUpTo({" ", "\t"}, MaxStatusPad)

\* the values before padding and casing: the four codes, the empty string,
\* two strings that are no code
StatusBases ==
    StatusCodes \cup {<<>>, <<"b", "o", "m">>, <<"v", "e", "r", "d", "e", " ", "x">>}

Capitalized(s) == [k \in 1..Len(s) |-> IF k = 1 THEN UpperChar(s[k]) ELSE s[k]]

AllUpper(s) == [k \in 1..Len(s) |-> UpperChar(s[k])]

CaseVariants(s) == {s, Capitalized(s), AllUpper(s)}

stIdle == stValue = <<>> /\ stBase = <<>> /\ stRes = <<>> /\ stpc = "off"

\* the value is a str (a status written with some casing, between
\* whitespace) or None
StatusInit ==
    /\ \E b \in StatusBases, l \in StatusPads, r \in StatusPads :
          /\ stBase = b
          /\ stValue \in {l \o c \o r : c \in CaseVariants(b)} \cup
                         (IF b = <<>> /\ l = <<>> /\ r = <<>> THEN {PyNone} ELSE {})
    /\ stRes = <<>>
    /\ stpc = "call"

StatusCall ==
    /\ stpc = "call"
    /\ UNCHANGED <<sessVars, exVars, pdfVars, fitVars, jpgVars, splVars>>
    /\ stRes' = format_status(stValue)
    /\ stpc' = "done"
    /\ UNCHANGED <<stValue, stBase>>

--------------------------------------------------------------------------
(* main(): one Streamlit session.  Every user event starts a script run of *)
(* main() from the top; st.session_state (report, analise_pronta) is what  *)
(* survives from one script run to the next.                               *)

\* photos in one upload
MaxPhotos == 3

\* the uploaded files, by name, in upload order
DigitChars == <<"1", "2", "3", "4", "5", "6", "7", "8", "9">>

FileName(k) == <<"f", DigitChars[k]>>

FileLists == {[k \in 1..n |-> FileName(k)] : n \in 0..MaxPhotos}

\* what the text field of the sidebar form holds: nothing, or a key
ApiKeys == {"", "key"}

\* answers of the provider to a per-photo call: a JSON object, JSON null,
\* a JSON number, prose between whitespace
Responses ==
    { <<"{", "\"", "a", "\"", ":", "1", "}">>,
      <<"n", "u", "l", "l">>,
      <<"1", "0">>,
      <<" ", "a", " ", "a", "\n">> }

\* answers of the provider to the summary call
SummaryResponses == {<<"o", "k">>, <<" ", "o", "k", "\n">>}

\* str(e) of what Image.open / image_to_optimized_jpeg_bytes raise, and of
\* what the provider call raises
ErrImage == <<"cannot identify image file">>

ErrProvider == <<"429 quota exceeded">>

\* what one pass of the loop can meet: decoding the image raises, the call
\* raises, the provider answers; with no model name there is no model to
\* answer and the call raises
PhotoOutcomes(model) ==
    {<<"image_raises">>, <<"call_raises">>} \cup
    (IF model = PyNone THEN {} ELSE {<<"text", t>> : t \in Responses})

SummaryOutcomes(model) ==
    {<<"call_raises">>} \cup
    (IF model = PyNone THEN {} ELSE {<<"text", t>> : t \in SummaryResponses})

\* no session: the state of these variables under the specifications of the
\* pure functions
sessIdle ==
    /\ report = PyNone /\ analise_pronta = FALSE
    /\ api_key = "" /\ uploaded_files = <<>> /\ event = "none"
    /\ runShownDisabled = TRUE /\ model_name = PyNone /\ notice = "none"
    /\ run = FALSE /\ pc = "off" /\ items = <<>> /\ idx = 0
    /\ summary_text = <<>> /\ calls = <<>> /\ outcomes = <<>>
    /\ sumOutcome = PyNone /\ shown = "nothing"

\* ensure_state() on a fresh session, then the first script run starts
SessInit ==
    /\ report = PyNone /\ analise_pronta = FALSE
    /\ api_key = "" /\ uploaded_files = <<>> /\ event = "none"
    /\ runShownDisabled = TRUE /\ model_name = PyNone /\ notice = "none"
    /\ run = FALSE /\ pc = "start" /\ items = <<>> /\ idx = 0
    /\ summary_text = <<>> /\ calls = <<>> /\ outcomes = <<>>
    /\ sumOutcome = PyNone /\ shown = "nothing"

runLocals == <<items, idx, summary_text, calls, outcomes, sumOutcome>>

\* a faulty variant of reset_report: the ready flag is left as it is
reset_report_keeps_flag ==
    /\ report' = PyNone
    /\ UNCHANGED analise_pronta

\* reset_report()
reset_report ==
    /\ report' = PyNone
    /\ analise_pronta' = FALSE

\* a user event starts a script run: the page is drawn anew
PageCleared ==
    /\ notice' = "none"
    /\ shown' = "nothing"

\* the user saves the sidebar form or changes the upload: a script run with
\* neither button clicked
UserEdit ==
    /\ pc = "idle"
    /\ UNCHANGED pureVars
    /\ \E k \in ApiKeys, fs \in FileLists :
          /\ <<k, fs>> # <<api_key, uploaded_files>>
          /\ api_key' = k
          /\ uploaded_files' = fs
    /\ event' = "edit"
    /\ pc' = "start"
    /\ PageCleared
    /\ UNCHANGED <<report, analise_pronta, runShownDisabled, model_name, run>>
    /\ UNCHANGED runLocals

\* the Limpar button: reset_report(), then st.rerun() starts the script over
UserClear ==
    /\ pc = "idle"
    /\ UNCHANGED pureVars
    /\ reset_report
    /\ event' = "clear"
    /\ pc' = "start"
    /\ PageCleared
    /\ UNCHANGED <<api_key, uploaded_files, runShownDisabled, model_name, run>>
    /\ UNCHANGED runLocals

\* the user clicks the run button, which the last script run drew enabled
UserRun ==
    /\ pc = "idle"
    /\ UNCHANGED pureVars
    /\ ~runShownDisabled
    /\ event' = "run"
    /\ pc' = "start"
    /\ PageCleared
    /\ UNCHANGED <<report, analise_pronta, api_key, uploaded_files,
                   runShownDisabled, model_name, run>>
    /\ UNCHANGED runLocals

\* discover_models under the try of main: with no key it is not called
DiscoverOutcomes == IF api_key = "" THEN {"skipped"} ELSE {"found", "empty", "error"}

ModelFound == <<"models/gemini-2.5-flash">>

DiscoveredModel(d) == IF d = "found" THEN ModelFound ELSE PyNone

DiscoveryNotice(d) ==
    CASE d = "empty" -> "warning"
      [] d = "error" -> "error"
      [] OTHER -> "none"

\* disabled=(not api_key or not model_name or not uploaded_files)
RunDisabled(key, model, files) == key = "" \/ model = PyNone \/ files = <<>>

\* the top of main() down to the run button and the first lines of the run
\* branch.  st.button returns True in the script run its click started; the
\* click was made on the button as the script run before drew it, and
\* disabled, computed after this script run's discovery, is how the button
\* is drawn from now on.  When run is True the run branch clears the stored
\* report first.
ScriptStart ==
    /\ pc = "start"
    /\ UNCHANGED pureVars
    /\ \E d \in DiscoverOutcomes :
          /\ model_name' = DiscoveredModel(d)
          /\ notice' = DiscoveryNotice(d)
    /\ runShownDisabled' = RunDisabled(api_key, model_name', uploaded_files)
    /\ run' = (event = "run")
    /\ items' = <<>>
    /\ idx' = 1
    /\ summary_text' = <<>>
    /\ calls' = <<>>
    /\ outcomes' = <<>>
    /\ sumOutcome' = PyNone
    /\ shown' = "nothing"
    /\ IF run'
       THEN /\ analise_pronta' = FALSE
            /\ report' = PyNone
            /\ pc' = IF uploaded_files = <<>> THEN "summary" ELSE "photo"
       ELSE /\ UNCHANGED <<report, analise_pronta>>
            /\ pc' = "display"
    /\ UNCHANGED <<api_key, uploaded_files, event>>

\* the normalized JPEG bytes of an upload and their sha256, as tokens
JpegOf(name) == <<"jpeg", name>>

HashOf(bytes) == <<"sha256", bytes>>

DiagnosticPrefix == <<"Erro ao analisar esta imagem: ">>

\* the item appended by the except branch of the loop
FallbackItem(name, e) ==
    [filename |-> name, image_bytes |-> PyNone, image_hash |-> PyNone,
     json |-> PyNone, parse_ok |-> FALSE, raw_text |-> DiagnosticPrefix \o e]

\* the item appended by the try branch: analyze_image_with_gemini returns
\* extract_json(getattr(resp, "text", "") or "")
AnalyzedItem(name, text) ==
    LET r == extract_json(text)
    IN  [filename |-> name, image_bytes |-> JpegOf(name),
         image_hash |-> HashOf(JpegOf(name)),
         json |-> r.obj, parse_ok |-> r.ok, raw_text |-> r.raw]

ItemFor(name, o) ==
    CASE o[1] = "image_raises" -> FallbackItem(name, ErrImage)
      [] o[1] = "call_raises"  -> FallbackItem(name, ErrProvider)
      [] o[1] = "text"         -> AnalyzedItem(name, o[2])

\* the provider is called unless decoding the image raised before the call
CallsFor(o, k) == IF o[1] = "image_raises" THEN <<>> ELSE <<<<"photo", k>>>>

\* a faulty variant of AnalyzePhoto: an error ends the loop
AnalyzePhoto_abort_on_error ==
    /\ pc = "photo"
    /\ UNCHANGED pureVars
    /\ idx <= Len(uploaded_files)
    /\ \E o \in PhotoOutcomes(model_name) :
          /\ outcomes' = Append(outcomes, o)
          /\ calls' = calls \o CallsFor(o, idx)
          /\ IF o[1] = "text"
             THEN /\ items' = Append(items, ItemFor(uploaded_files[idx], o))
                  /\ pc' = IF idx = Len(uploaded_files) THEN "summary" ELSE "photo"
             ELSE /\ items' = items
                  /\ pc' = "summary"
    /\ idx' = idx + 1
    /\ UNCHANGED <<report, analise_pronta, api_key, uploaded_files, event,
                   runShownDisabled, model_name, notice, run, summary_text,
                   sumOutcome, shown>>

\* a faulty variant of AnalyzePhoto: a provider call that raised is made a
\* second time before the fallback item is appended
AnalyzePhoto_retry_on_error ==
    /\ pc = "photo"
    /\ UNCHANGED pureVars
    /\ idx <= Len(uploaded_files)
    /\ \E o \in PhotoOutcomes(model_name) :
          /\ outcomes' = Append(outcomes, o)
          /\ calls' = calls \o CallsFor(o, idx) \o
                (IF o[1] = "call_raises" THEN CallsFor(o, idx) ELSE <<>>)
          /\ items' = Append(items, ItemFor(uploaded_files[idx], o))
    /\ idx' = idx + 1
    /\ pc' = IF idx = Len(uploaded_files) THEN "summary" ELSE "photo"
    /\ UNCHANGED <<report, analise_pronta, api_key, uploaded_files, event,
                   runShownDisabled, model_name, notice, run, summary_text,
                   sumOutcome, shown>>

\* one pass of `for i, uf in enumerate(uploaded_files, start=1)`
AnalyzePhoto ==
    /\ pc = "photo"
    /\ UNCHANGED pureVars
    /\ idx <= Len(uploaded_files)
    /\ \E o \in PhotoOutcomes(model_name) :
          /\ outcomes' = Append(outcomes, o)
          /\ calls' = calls \o CallsFor(o, idx)
          /\ items' = Append(items, ItemFor(uploaded_files[idx], o))
    /\ idx' = idx + 1
    /\ pc' = IF idx = Len(uploaded_files) THEN "summary" ELSE "photo"
    /\ UNCHANGED <<report, analise_pronta, api_key, uploaded_files, event,
                   runShownDisabled, model_name, notice, run, summary_text,
                   sumOutcome, shown>>

SummaryPlaceholder == <<"Nao foi possivel gerar resumo geral automaticamente: ">>

\* summary_text after the try/except around the summary call
SummaryText(o) ==
    IF o[1] = "call_raises" THEN SummaryPlaceholder \o ErrProvider
    ELSE Strip(OrEmpty(o[2]))

\* a faulty variant of Summarize: an error skips the assembly
Summarize_abort ==
    /\ pc = "summary"
    /\ UNCHANGED pureVars
    /\ \E o \in SummaryOutcomes(model_name) :
          /\ sumOutcome' = o
          /\ summary_text' = SummaryText(o)
          /\ pc' = IF o[1] = "call_raises" THEN "display" ELSE "assemble"
    /\ calls' = Append(calls, <<"summary">>)
    /\ UNCHANGED <<report, analise_pronta, api_key, uploaded_files, event,
                   runShownDisabled, model_name, notice, run, items, idx,
                   outcomes, shown>>

\* the summary call, issued once the loop is over
Summarize ==
    /\ pc = "summary"
    /\ UNCHANGED pureVars
    /\ \E o \in SummaryOutcomes(model_name) :
          /\ sumOutcome' = o
          /\ summary_text' = SummaryText(o)
    /\ calls' = Append(calls, <<"summary">>)
    /\ pc' = "assemble"
    /\ UNCHANGED <<report, analise_pronta, api_key, uploaded_files, event,
                   runShownDisabled, model_name, notice, run, items, idx,
                   outcomes, shown>>

\* the report dict of main (generated_at and elapsed_s, clock readings, and
\* the header typed by the user are left out); a dict is <<"dict", fields>>
BuildReport(its, text, model) ==
    <<"dict", [meta    |-> [model |-> model, n_images |-> Len(its)],
               items   |-> its,
               summary |-> [text |-> text]]>>

\* the fields of a report that is not None
Fields(r) == r[2]

\* st.session_state.report = report; st.session_state.analise_pronta = True
StoreReport ==
    /\ pc = "assemble"
    /\ UNCHANGED pureVars
    /\ report' = BuildReport(items, summary_text, model_name)
    /\ analise_pronta' = TRUE
    /\ pc' = "display"
    /\ UNCHANGED <<api_key, uploaded_files, event, runShownDisabled, model_name,
                   notice, run, shown>>
    /\ UNCHANGED runLocals

\* main returns: its locals are gone and the click that started the script
\* run is consumed
LocalsGone ==
    /\ event' = "none"
    /\ run' = FALSE
    /\ model_name' = PyNone
    /\ items' = <<>>
    /\ idx' = 0
    /\ summary_text' = <<>>
    /\ calls' = <<>>
    /\ outcomes' = <<>>
    /\ sumOutcome' = PyNone

\* what the last section of main shows: nothing unless a report is ready;
\* else the report and the PDF button, or the report and the caught error of
\* build_pdf_bytes, or the uncaught error of render_report
DisplayOutcomes ==
    IF analise_pronta /\ report # PyNone
    THEN {"report_and_pdf", "report_and_pdf_error", "render_error"}
    ELSE {"nothing"}

\* a faulty variant of Display: a PDF error resets the report
Display_drops_report_on_error ==
    /\ pc = "display"
    /\ UNCHANGED pureVars
    /\ \E o \in DisplayOutcomes :
          /\ shown' = o
          /\ IF o = "report_and_pdf_error"
             THEN reset_report
             ELSE UNCHANGED <<report, analise_pronta>>
    /\ pc' = "idle"
    /\ LocalsGone
    /\ UNCHANGED <<api_key, uploaded_files, runShownDisabled, notice>>

\* `if st.session_state.analise_pronta and st.session_state.report:` to the
\* end of main; the script run ends and the session waits for the user
Display ==
    /\ pc = "display"
    /\ UNCHANGED pureVars
    /\ \E o \in DisplayOutcomes : shown' = o
    /\ pc' = "idle"
    /\ LocalsGone
    /\ UNCHANGED <<report, analise_pronta, api_key, uploaded_files,
                   runShownDisabled, notice>>

--------------------------------------------------------------------------
(* build_pdf_bytes.  The story is the list of flowables handed to          *)
(* doc.build: <<"Paragraph", markup, style>>, <<"Spacer", height>>,        *)
(* <<"Image", bytes>>, <<"Table", rows>>, <<"PageBreak">>.  Fixed markup   *)
(* is one token of the text; table styles and column widths are left out,  *)
(* and so is the layout doc.build does.  Accented letters of the source's  *)
(* literals are written without the accent.                                *)

\* raw[:3000]
RawLimit == 3000

\* dict.get(k, default)
Get(d, k, default) == IF k \in DOMAIN d THEN d[k] ELSE default

\* the truth value of a parsed JSON value: not v
Falsy(v) ==
    CASE v[1] = "None" -> TRUE
      [] v[1] = "str"  -> v[2] = <<>>
      [] v[1] = "num"  -> v[2] = 0
      [] v[1] = "bool" -> ~v[2]
      [] v[1] = "arr"  -> v[2] = <<>>
      [] v[1] = "obj"  -> DOMAIN v[2] = {}

DecDigit(d) == CHOOSE c \in Digits : DigitVal(c) = d

\* str(n), n an int
RECURSIVE Decimal(_)
Decimal(n) ==
    IF n < 0 THEN <<"-">> \o Decimal(0 - n)
    ELSE IF n < 10 THEN <<DecDigit(n)>>
    ELSE Decimal(n \div 10) \o <<DecDigit(n % 10)>>

\* sep.join(parts)
RECURSIVE Join(_, _)
Join(parts, sep) ==
    IF parts = <<>> THEN <<>>
    ELSE IF Len(parts) = 1 THEN parts[1]
    ELSE parts[1] \o sep \o Join(Tail(parts), sep)

\* str(v) and repr(v) of a parsed JSON value; the strings of the model hold
\* no character repr escapes, and no dict of the model reaches str()
RECURSIVE PyStr(_), PyRepr(_)
PyStr(v) ==
    CASE v[1] = "None" -> <<"N", "o", "n", "e">>
      [] v[1] = "str"  -> v[2]
      [] v[1] = "num"  -> Decimal(v[2])
      [] v[1] = "bool" -> IF v[2] THEN <<"T", "r", "u", "e">> ELSE <<"F",
            "a", "l", "s", "e">>
      [] v[1] = "arr"  ->
            <<"[">> \o Join([k \in 1..Len(v[2]) |-> PyRepr(v[2][k])], <<",",
                  " ">>)
                    \o <<"]">>

PyRepr(v) == IF v[1] = "str" THEN <<"'">> \o v[2] \o <<"'">> ELSE PyStr(v)

\* str(v or "")
StrOrEmpty(v) == IF Falsy(v) THEN <<>> ELSE PyStr(v)

\* str.replace(c, rep), c one character
RECURSIVE Replace(_, _, _)
Replace(s, c, rep) ==
    LET ps == Positions(s, c)
    IN  IF ps = {} THEN s
        ELSE LET p == SetMin(ps)
             IN  SubSeq(s, 1, p - 1) \o rep
                     \o Replace(SubSeq(s, p + 1, Len(s)), c, rep)

\* safe_p(text), text a str or None
safe_p(text) ==
    IF text = PyNone THEN <<>>
    ELSE Replace(Replace(Replace(text, "&", <<"&", "a", "m", "p", ";">>),
          "<", <<"&", "l", "t", ";">>),
                 ">", <<"&", "g", "t", ";">>)

\* a faulty variant of Slice: no cut
Slice_whole(s, n) == s

\* s[:n]
Slice(s, n) == SubSeq(s, 1, Min(Len(s), n))

\* Paragraph(safe_p(text), styles[style])
P(text, style) == <<"Paragraph", safe_p(text), style>>

Spacer(h) == <<"Spacer", h>>

PageBreak == <<"PageBreak">>

\* the keys of the record the prompt asks the provider for
KeyComodo == <<"c", "o", "m", "o", "d", "o", "_", "o", "u", "_", "a", "r",
      "e", "a">>

KeyObs == <<"o", "b", "s", "e", "r", "v", "a", "c", "o", "e", "s", "_", "g",
      "e", "r", "a", "i", "s">>

KeyConfianca == <<"c", "o", "n", "f", "i", "a", "n", "c", "a">>

KeyItens == <<"i", "t", "e", "n", "s">>

KeyElemento == <<"e", "l", "e", "m", "e", "n", "t", "o">>

KeyMaterial == <<"m", "a", "t", "e", "r", "i", "a", "l", "_", "a", "c", "a",
      "b", "a", "m", "e", "n", "t", "o">>

KeyEstado == <<"e", "s", "t", "a", "d", "o", "_", "c", "o", "n", "s", "e",
      "r", "v", "a", "c", "a", "o">>

KeyPatologias == <<"p", "a", "t", "o", "l", "o", "g", "i", "a", "s", "_",
      "o", "u", "_", "o", "b", "s", "e", "r", "v", "a", "c", "o", "e", "s">>

EmptyStr == <<"str", <<>>>>

\* "; ".join([str(p) for p in patologias if p]) for a list, else
\* str(patologias) if patologias else ""
PatologiasTxt(it) ==
    LET patologias == Get(it, KeyPatologias, <<"arr", <<>>>>)
    IN  IF patologias[1] = "arr"
        THEN LET kept == SelectSeq(patologias[2], LAMBDA p : ~Falsy(p))
             IN  Join([k \in 1..Len(kept) |-> PyStr(kept[k])], <<";", " ">>)
        ELSE StrOrEmpty(patologias)

\* one pass of the loop over itens: the row appended to table_data.
\* format_status(estado_raw) is "" for a falsy value and works on
\* str(value) else.
TableRow(it) ==
    LET estado_raw == Get(it, KeyEstado, EmptyStr)
    IN  << P(StrOrEmpty(Get(it, KeyElemento, EmptyStr)), "Tiny"),
           P(StrOrEmpty(Get(it, KeyMaterial, EmptyStr)), "Tiny"),
           P(format_status(StrOrEmpty(estado_raw)), "Tiny"),
           P(PatologiasTxt(it), "Tiny") >>

\* the pass raises: it.get on an element that is no dict (AttributeError),
\* or status_bg on a status that is truthy and no str: (value or "").strip()
RowRaises(it) ==
    \/ it[1] # "obj"
    \/ LET estado_raw == Get(it[2], KeyEstado, EmptyStr)
       IN  ~Falsy(estado_raw) /\ estado_raw[1] # "str"

\* what the loop `for r_i, it in enumerate(itens, start=1)` runs over,
\* itens being data.get("itens", []) or []: the elements of a list, the
\* characters of a str, the keys of a dict (one of them here: the first
\* pass over a key raises)
Iterated(itens) ==
    CASE Falsy(itens)     -> <<>>
      [] itens[1] = "arr" -> itens[2]
      [] itens[1] = "str" ->
            [k \in 1..Len(itens[2]) |-> <<"str", <<itens[2][k]>>>>]
      [] itens[1] = "obj" -> <<<<"str",
            CHOOSE key \in DOMAIN itens[2] : TRUE>>>>
      [] OTHER            -> <<>>

\* enumerate raises TypeError on a number or a boolean
NotIterable(itens) == ~Falsy(itens) /\ itens[1] \in {"num", "bool"}

TableHeader ==
    << P(<<"E", "l", "e", "m", "e", "n", "t", "o">>, "Small"), P(<<"M", "a",
          "t", "e", "r", "i", "a", "l", "/", "A", "c", "a", "b", "a", "m",
          "e", "n", "t", "o">>, "Small"),
       P(<<"E", "s", "t", "a", "d", "o">>, "Small"), P(<<"P", "a", "t", "o",
             "l", "o", "g", "i", "a", "s", "/", "O", "b", "s">>, "Small") >>

\* the branch of an item with parse_ok and a dict: the info line, the
\* general remarks, the element table
TableBlocks(data) ==
    LET comodo == StrOrEmpty(Get(data, KeyComodo, EmptyStr))
        obs    == StrOrEmpty(Get(data, KeyObs, EmptyStr))
        conf   == Get(data, KeyConfianca, PyNone)
        itens  == Get(data, KeyItens, <<"arr", <<>>>>)
        rows   == Iterated(itens)
        info_line ==
            <<"<b>Comodo/Area:</b> ">> \o safe_p(comodo) \o
            (IF conf # PyNone
             THEN <<" &nbsp;&nbsp; <b>Confianca:</b> ">> \o safe_p(PyStr(conf))
             ELSE <<>>)
    IN  IF NotIterable(itens) \/ \E k \in 1..Len(rows) : RowRaises(rows[k])
        THEN [raised |-> TRUE, blocks |-> <<>>]
        ELSE [raised |-> FALSE,
              blocks |->
                  <<<<"Paragraph", info_line, "Small">>>> \o
                  (IF obs # <<>>
                   THEN <<<<"Paragraph",
                            <<"<b>Observacoes gerais:</b> ">> \o safe_p(obs),
                            "Small">>>>
                   ELSE <<>>) \o
                  <<Spacer(6),
                    <<"Table",
                      <<TableHeader>> \o
                          [k \in 1..Len(rows) |-> TableRow(rows[k][2])]>>>>]

FallbackNotice ==
    <<"Paragraph", <<"<b>Falha ao estruturar JSON.</b> Retorno bruto:">>,
          "Small">>

\* the else branch: the notice, a spacer, the raw text cut and escaped
FallbackBlocks(item) ==
    LET raw == OrEmpty(Get(item, "raw_text", <<>>))
    IN  <<FallbackNotice, Spacer(4), P(Slice(raw, RawLimit), "Tiny")>>

\* the value is in the dict and is truthy; bytes and flags of the model
\* are falsy when None or False only
Present(item, k) ==
    k \in DOMAIN item /\ item[k] # PyNone

\* one pass of `for idx, item in enumerate(items, start=1)`, n = len(items):
\* the flowables appended to the story, or raised = TRUE when the pass
\* raises.  The draw size is left out of the block (see
\* fit_image_preserve_aspect below).
ItemSection(item, k, n) ==
    LET head   == << <<"Paragraph",
                       <<"Foto ">> \o Decimal(k) \o <<":", " ">>
                           \o safe_p(Get(item, "filename", <<>>)),
                       "H3">>,
                     Spacer(4) >>
        image  == IF Present(item, "image_bytes")
                  THEN << <<"Image", item.image_bytes>>, Spacer(8) >>
                  ELSE <<>>
        table  == Get(item, "parse_ok", FALSE)
                     /\ IsDict(Get(item, "json", PyNone))
        body   == IF table THEN TableBlocks(item.json[2])
                  ELSE [raised |-> FALSE, blocks |-> FallbackBlocks(item)]
        break  == IF k < n THEN <<PageBreak>> ELSE <<>>
    IN  [raised |-> body.raised,
         blocks |-> head \o image \o body.blocks \o break]

\* re.sub(r"\*\*(.*?)\*\*", r"\1", s): the leftmost pair of ** on one line,
\* the nearest closing one, replaced by what is between; then the rest
RECURSIVE UnBold(_)
UnBold(s) ==
    LET Stars(i) == i + 1 <= Len(s) /\ s[i] = "*" /\ s[i + 1] = "*"
        Closes(i) == {j \in (i + 2)..Len(s) :
                         Stars(j) /\ \A k \in (i + 2)..(j - 1) : s[k] # "\n"}
        opens == {i \in 1..Len(s) : Stars(i) /\ Closes(i) # {}}
    IN  IF opens = {} THEN s
        ELSE LET i == SetMin(opens)
                 j == SetMin(Closes(i))
             IN  SubSeq(s, 1, i - 1) \o SubSeq(s, i + 2, j - 1)
                     \o UnBold(SubSeq(s, j + 2, Len(s)))

\* strip_md(s), s a str or None
strip_md(s) == IF s = PyNone \/ s = <<>> THEN <<>> ELSE Strip(UnBold(s))

ResumoGeral == <<"R", "e", "s", "u", "m", "o", " ", "G", "e", "r", "a", "l">>

\* keys of split_summary_sections
SummaryKeys ==
    << <<"P", "r", "i", "n", "c", "i", "p", "a", "i", "s", " ", "A", "c",
          "h", "a", "d", "o", "s">>,
       <<"P", "o", "n", "t", "o", "s", " ", "d", "e", " ", "A", "t", "e",
             "n", "c", "a", "o">>,
       <<"R", "e", "c", "o", "m", "e", "n", "d", "a", "c", "o", "e", "s",
             " ", "d", "e", " ", "P", "r", "o", "x", "i", "m", "o", "s", " ",
             "P", "a", "s", "s", "o", "s">>,
       <<"L", "i", "m", "i", "t", "a", "c", "o", "e", "s">> >>

\* where re.search(key + r"\s*:?", t, re.IGNORECASE) can match: the key,
\* whatever its casing (the rest of the pattern matches the empty string)
KeyStarts(t, key) ==
    {i \in 1..(Len(t) - Len(key) + 1) :
        \A d \in 1..Len(key) : LowerChar(t[i + d - 1]) = LowerChar(key[d])}

\* re.sub("^" + key + r"\s*:?\s*", "", block, re.IGNORECASE), block
\* starting with the key
RemoveTitle(block, key) ==
    LET rest == LStrip(SubSeq(block, Len(key) + 1, Len(block)))
    IN  IF rest # <<>> /\ rest[1] = ":" THEN LStrip(Tail(rest)) ELSE rest

\* sorted(positions), positions a set of (start, key) of different starts
RECURSIVE Sorted(_)
Sorted(S) ==
    IF S = {} THEN <<>>
    ELSE LET first == CHOOSE p \in S : \A q \in S : p[1] <= q[1]
         IN  <<first>> \o Sorted(S \ {first})

\* the mutant of split_summary_sections without if not t: return []
split_summary_sections_no_empty_check(text) ==
    LET t      == strip_md(OrEmpty(text))
        found  == {k \in 1..Len(SummaryKeys) : KeyStarts(t, SummaryKeys[k]) # {}}
        positions ==
            Sorted({<<SetMin(KeyStarts(t, SummaryKeys[k])), k>> : k \in found})
        End(n) == IF n < Len(positions) THEN positions[n + 1][1] - 1
                  ELSE Len(t)
        Section(n) ==
            LET key   == SummaryKeys[positions[n][2]]
                block == Strip(SubSeq(t, positions[n][1], End(n)))
            IN  <<key, Strip(RemoveTitle(block, key))>>
        sections == [n \in 1..Len(positions) |-> Section(n)]
        intro == IF positions = <<>> THEN <<>>
                 ELSE Strip(SubSeq(t, 1, positions[1][1] - 1))
    IN  IF positions = <<>> THEN <<<<ResumoGeral, t>>>>
        ELSE IF intro # <<>> THEN <<<<ResumoGeral, intro>>>> \o sections
        ELSE sections

\* split_summary_sections(text): the list of (title, content); a position is
\* (start of the first match of the key, index of the key), and no two keys
\* match at the same place
split_summary_sections(text) ==
    LET t      == strip_md(OrEmpty(text))
        found  == {k \in 1..Len(SummaryKeys) : KeyStarts(t, SummaryKeys[k]) # {}}
        positions ==
            Sorted({<<SetMin(KeyStarts(t, SummaryKeys[k])), k>> : k \in found})
        End(n) == IF n < Len(positions) THEN positions[n + 1][1] - 1
                  ELSE Len(t)
        Section(n) ==
            LET key   == SummaryKeys[positions[n][2]]
                block == Strip(SubSeq(t, positions[n][1], End(n)))
            IN  <<key, Strip(RemoveTitle(block, key))>>
        sections == [n \in 1..Len(positions) |-> Section(n)]
        intro == IF positions = <<>> THEN <<>>
                 ELSE Strip(SubSeq(t, 1, positions[1][1] - 1))
    IN  IF t = <<>> THEN <<>>
        ELSE IF positions = <<>> THEN <<<<ResumoGeral, t>>>>
        ELSE IF intro # <<>> THEN <<<<ResumoGeral, intro>>>> \o sections
        ELSE sections

\* re.split(r"\n\s*\n", content): cut at the first newline followed by
\* whitespace up to a later newline, the last one of that whitespace
RECURSIVE SplitBlankLines(_)
SplitBlankLines(content) ==
    LET WsEnd(i) == Len(content) - Len(LStrip(SubSeq(content, i + 1,
          Len(content))))
        Last(i)  == {j \in (i + 1)..WsEnd(i) : content[j] = "\n"}
        cuts == {i \in 1..Len(content) : content[i] = "\n" /\ Last(i) # {}}
    IN  IF cuts = {} THEN <<content>>
        ELSE LET i == SetMin(cuts)
                 j == SetMax(Last(i))
             IN  <<SubSeq(content, 1, i - 1)>>
                     \o SplitBlankLines(SubSeq(content, j + 1, Len(content)))

\* the flowables of one (title, content) of the summary
SummarySection(title, content) ==
    LET pieces == SplitBlankLines(strip_md(content))
        parts  == SelectSeq([k \in 1..Len(pieces) |-> Strip(pieces[k])],
                            LAMBDA p : p # <<>>)
        Para(k) == IF k % 2 = 1 THEN P(parts[(k + 1) \div 2], "Small")
                   ELSE Spacer(4)
    IN  (IF title # ResumoGeral THEN <<<<"Paragraph", title,
          "H3">>>> ELSE <<>>)
            \o [k \in 1..(2 * Len(parts)) |-> Para(k)]
            \o <<Spacer(6)>>

RECURSIVE Concat(_)
Concat(seqs) == IF seqs = <<>> THEN <<>> ELSE seqs[1] \o Concat(Tail(seqs))

\* the summary pages: the page break, the heading, the sections
SummaryBlocks(summary) ==
    LET sections == split_summary_sections(OrEmpty(Get(summary, "text",
          <<>>)))
    IN  <<PageBreak, <<"Paragraph", ResumoGeral, "H2">>, Spacer(4)>> \o
        Concat([k \in 1..Len(sections) |->
                   SummarySection(sections[k][1], sections[k][2])])

ReportTitle ==
    <<"Paragraph",
      <<"R", "e", "l", "a", "t", "o", "r", "i", "o", " ", "d", "e", " ", "V",
        "i", "s", "t", "o", "r", "i", "a", " ", "(", "I", "A", ")">>,
      "H1">>

\* the top of the story: the title table (the logo cell left empty), the
\* metadata table (the rows of the fields the model's report keeps), a
\* spacer
HeaderBlocks(meta) ==
    << <<"Table", << <<"", ReportTitle>> >> >>,
       <<"Table",
         << <<"Modelo", safe_p(Get(meta, "model", <<>>))>>,
            <<"Fotos", IF "n_images" \in DOMAIN meta
                       THEN Decimal(meta.n_images) ELSE <<>>>> >> >>,
       Spacer(10) >>

\* the reports build_pdf_bytes is called on hold up to this many items
MaxPdfItems == 2

\* answers of the provider that make the items of these reports: an object
\* without the fields of the prompt, a full record, a record whose itens
\* holds a number, a record with a number as status, JSON null, prose with
\* markup characters, the empty answer
PdfAnswers ==
    { <<"{", "\"", "a", "\"", ":", "1", "}">>,
      <<"{", "\"", "c", "o", "m", "o", "d", "o", "_", "o", "u", "_", "a",
            "r", "e", "a", "\"", ":", "\"", "S", "a", "l", "a", "\"", ",",
            "\"", "c", "o", "n", "f", "i", "a", "n", "c", "a", "\"", ":",
            "8", ",", "\"", "i", "t", "e", "n", "s", "\"", ":", "[", "{",
            "\"", "e", "l", "e", "m", "e", "n", "t", "o", "\"", ":", "\"",
            "P", "i", "s", "o", "\"", ",", "\"", "e", "s", "t", "a", "d",
            "o", "_", "c", "o", "n", "s", "e", "r", "v", "a", "c", "a", "o",
            "\"", ":", "\"", " ", "V", "e", "r", "d", "e", "\"", ",", "\"",
            "p", "a", "t", "o", "l", "o", "g", "i", "a", "s", "_", "o", "u",
            "_", "o", "b", "s", "e", "r", "v", "a", "c", "o", "e", "s", "\"",
            ":", "[", "\"", "a", "<", "b", "\"", ",", "\"", "\"", "]", "}",
            ",", "{", "}", "]", "}">>,
      <<"{", "\"", "i", "t", "e", "n", "s", "\"", ":", "[", "1", "]", "}">>,
      <<"{", "\"", "i", "t", "e", "n", "s", "\"", ":", "[", "{", "\"", "e",
            "s", "t", "a", "d", "o", "_", "c", "o", "n", "s", "e", "r", "v",
            "a", "c", "a", "o", "\"", ":", "5", "}", "]", "}">>,
      <<"n", "u", "l", "l">>,
      <<" ", "a", "&", "<", "b", ">", "\n">>,
      <<>> }

\* a text of n characters, an ampersand the one at RawLimit and a "<" each
\* one after it
LongText(n) ==
    [k \in 1..n |->
        IF k < RawLimit THEN "a" ELSE IF k = RawLimit THEN "&" ELSE "<"]

\* an item whose answer could not be parsed
UnparsedItem(name, bytes, raw) ==
    [filename |-> name, image_bytes |-> bytes,
     image_hash |-> IF bytes = PyNone THEN PyNone ELSE HashOf(bytes),
     json |-> PyNone, parse_ok |-> FALSE, raw_text |-> raw]

\* the items a report can hold at one place: what main appends for an
\* answer or an error, an item with a long answer with and without its
\* image, an item with raw_text None, an item without raw_text
PdfItems(name) ==
    {AnalyzedItem(name, t) : t \in PdfAnswers} \cup
    { FallbackItem(name, ErrProvider),
      UnparsedItem(name, PyNone, LongText(RawLimit)),
      UnparsedItem(name, JpegOf(name), LongText(RawLimit + 1)),
      UnparsedItem(name, PyNone, PyNone),
      [filename |-> name, image_bytes |-> JpegOf(name),
       image_hash |-> HashOf(JpegOf(name)), json |-> PyNone,
       parse_ok |-> FALSE] }

\* summary texts: none, one without a marker, one with an introduction and
\* two markers out of the order of the keys
PdfSummaryTexts ==
    { <<>>,
      <<"o", "k">>,
      <<"i", "\n", " ", "\n", "*", "*", "L", "i", "m", "i", "t", "a", "c",
            "o", "e", "s", "*", "*", ":", " ", "<", "y", ">", "\n", "\n",
            "P", "O", "N", "T", "O", "S", " ", "D", "E", " ", "A", "T", "E",
            "N", "C", "A", "O", " ", "z">> }

PdfInit ==
    /\ \E n \in 1..MaxPdfItems :
          \E its \in [1..n -> UNION {PdfItems(FileName(k)) : k \in 1..n}] :
             /\ \A k \in 1..n : its[k].filename = FileName(k)
             /\ \E text \in PdfSummaryTexts :
                   pdfReport = BuildReport(its, text, ModelFound)
    /\ pdfSections = <<>>
    /\ pdfStory = <<>>
    /\ pdfpc = "open"

\* build_pdf_bytes up to the loop over the items
PdfOpen ==
    /\ pdfpc = "open"
    /\ pdfStory' = HeaderBlocks(Get(Fields(pdfReport), "meta", <<>>))
    /\ pdfpc' = "items"
    /\ UNCHANGED <<pdfReport, pdfSections>>
    /\ UNCHANGED <<sessVars, exVars, stVars, fitVars, jpgVars, splVars>>

\* one pass of the loop over the items; an exception leaves build_pdf_bytes
PdfItem ==
    /\ pdfpc = "items"
    /\ LET its == Get(Fields(pdfReport), "items", <<>>)
           k   == Len(pdfSections) + 1
       IN  /\ k <= Len(its)
           /\ LET section == ItemSection(its[k], k, Len(its))
              IN  IF section.raised
                  THEN /\ pdfpc' = "raised"
                       /\ UNCHANGED <<pdfSections, pdfStory>>
                  ELSE /\ pdfSections' = Append(pdfSections, section.blocks)
                       /\ pdfStory' = pdfStory \o section.blocks
                       /\ pdfpc' = "items"
    /\ UNCHANGED pdfReport
    /\ UNCHANGED <<sessVars, exVars, stVars, fitVars, jpgVars, splVars>>

\* after the loop: the summary pages, then doc.build(story)
PdfSummary ==
    /\ pdfpc = "items"
    /\ Len(pdfSections) = Len(Get(Fields(pdfReport), "items", <<>>))
    /\ pdfStory' = pdfStory \o SummaryBlocks(Get(Fields(pdfReport),
          "summary", <<>>))
    /\ pdfpc' = "done"
    /\ UNCHANGED <<pdfReport, pdfSections>>
    /\ UNCHANGED <<sessVars, exVars, stVars, fitVars, jpgVars, splVars>>

pdfIdle ==
    pdfReport = PyNone /\ pdfSections = <<>> /\ pdfStory = <<>> /\ pdfpc = "off"

--------------------------------------------------------------------------
(* fit_image_preserve_aspect: the size an embedded image is drawn at.      *)
(* Pixel sizes are those of an image PIL has opened, so both are at least  *)
(* 1.  The code computes in floats; here the arithmetic is exact: a length *)
(* is a fraction <<n, d>> with d > 0, so a property is not lost or won by  *)
(* rounding.                                                               *)

MaxPx == 5

MaxBox == 4

\* a <= b for fractions
FracLeq(a, b) == a[1] * b[2] <= b[1] * a[2]

\* the mutant of fit_image_preserve_aspect that never limits the height
fit_image_no_height_limit(w_px, h_px, max_w, max_h) ==
    LET m == IF w_px >= 1 THEN w_px ELSE 1
    IN  [w |-> <<max_w, 1>>, h |-> <<max_w * h_px, m>>]

\* aspect = h_px / max(w_px, 1); w = max_w; h = w * aspect; when h > max_h
\* the height becomes max_h and the width h / aspect.  The division is only
\* reached with h > max_h >= 0, hence with aspect > 0.
fit_image_preserve_aspect(w_px, h_px, max_w, max_h) ==
    LET m == IF w_px >= 1 THEN w_px ELSE 1
        h == <<max_w * h_px, m>>
    IN  IF ~FracLeq(h, <<max_h, 1>>)
        THEN [w |-> <<max_h * m, h_px>>, h |-> <<max_h, 1>>]
        ELSE [w |-> <<max_w, 1>>, h |-> h]

FitInit ==
    /\ fitIn \in [w_px : 1..MaxPx, h_px : 1..MaxPx,
                  max_w : 1..MaxBox, max_h : 1..MaxBox]
    /\ fitRes = <<>>
    /\ fitpc = "call"

FitCall ==
    /\ fitpc = "call"
    /\ fitRes' = fit_image_preserve_aspect(fitIn.w_px, fitIn.h_px,
                                           fitIn.max_w, fitIn.max_h)
    /\ fitpc' = "done"
    /\ UNCHANGED fitIn
    /\ UNCHANGED <<sessVars, exVars, stVars, pdfVars, jpgVars, splVars>>

fitIdle == fitIn = <<>> /\ fitRes = <<>> /\ fitpc = "off"

--------------------------------------------------------------------------
(* image_to_optimized_jpeg_bytes: the pixel size of the JPEG it writes.    *)
(* Its outcome is <<"size", w, h>>, or <<"raises">> when a side of the     *)
(* target size is 0 (PIL refuses to resize to, or to save, an empty        *)
(* image).                                                                 *)

MaxDim == 6

MaxSide == 4

Max(a, b) == IF a >= b THEN a ELSE b

\* int(x * scale) with scale = max_side / longer computed in floats.  When
\* x * max_side / longer is not a whole number its distance to one is at
\* least 1 / longer and the truncation is that of the exact quotient.  When
\* it is a whole number q the float product is q or just below q (640 / 1077
\* * 1077 truncates to 639), so both q and q - 1 are possible.
IntTimesScale(x, max_side, longer) ==
    LET q == (x * max_side) \div longer
    IN  IF (x * max_side) % longer = 0 THEN {q - 1, q} ELSE {q}

\* img.resize((int(w * scale), int(h * scale))) and the save that follows.
\* Equal sides go through the same float product and come out equal.
ResizeOutcomes(w, h, max_side) ==
    LET longer == Max(w, h)
        Resized(nw, nh) ==
            IF nw = 0 \/ nh = 0 THEN <<"raises">> ELSE <<"size", nw, nh>>
    IN  UNION {{Resized(nw, nh) :
                   nh \in {n \in IntTimesScale(h, max_side, longer) :
                              w = h => n = nw}} :
               nw \in IntTimesScale(w, max_side, longer)}

\* the mutant of image_to_optimized_jpeg_bytes whose scale is not capped
image_to_optimized_jpeg_bytes_uncapped(w, h, max_side) ==
    ResizeOutcomes(w, h, max_side)

\* scale = min(max_side / max(w, h), 1.0); the image is resized to
\* (int(w * scale), int(h * scale)) only when scale < 1.0.
image_to_optimized_jpeg_bytes(w, h, max_side) ==
    LET longer == Max(w, h)
    IN  IF max_side >= longer
        THEN {<<"size", w, h>>}
        ELSE ResizeOutcomes(w, h, max_side)

JpgInit ==
    /\ jpgIn \in [w : 1..MaxDim, h : 1..MaxDim, max_side : 1..MaxSide]
    /\ jpgRes = <<>>
    /\ jpgAgain = <<>>
    /\ jpgpc = "first"

\* the call on the uploaded image
JpgCall ==
    /\ jpgpc = "first"
    /\ jpgRes' \in image_to_optimized_jpeg_bytes(jpgIn.w, jpgIn.h,
                                                 jpgIn.max_side)
    /\ jpgpc' = IF jpgRes'[1] = "raises" THEN "raised" ELSE "second"
    /\ UNCHANGED <<jpgIn, jpgAgain>>
    /\ UNCHANGED <<sessVars, exVars, stVars, pdfVars, fitVars, splVars>>

\* the call on the JPEG the first call wrote, with the same max_side
JpgCallAgain ==
    /\ jpgpc = "second"
    /\ jpgAgain' \in image_to_optimized_jpeg_bytes(jpgRes[2], jpgRes[3],
                                                   jpgIn.max_side)
    /\ jpgpc' = "done"
    /\ UNCHANGED <<jpgIn, jpgRes>>
    /\ UNCHANGED <<sessVars, exVars, stVars, pdfVars, fitVars, splVars>>

jpgIdle == jpgIn = <<>> /\ jpgRes = <<>> /\ jpgAgain = <<>> /\ jpgpc = "off"

--------------------------------------------------------------------------
(* split_summary_sections on one summary text                              *)

MaxParts == 3

\* what a summary text is put together from: whitespace, a word, the bold
\* marker, and section titles in several casings, with and without colon
SplitFragments ==
    { <<" ">>,
      <<"\n">>,
      <<"x">>,
      <<"*", "*">>,
      <<"L", "i", "m", "i", "t", "a", "c", "o", "e", "s">>,
      <<"p", "o", "n", "t", "o", "s", " ", "d", "e", " ", "a", "t", "e", "n", "c", "a", "o", ":">>,
      <<"P", "R", "I", "N", "C", "I", "P", "A", "I", "S", " ", "A", "C", "H", "A", "D", "O", "S">> }

SplitTexts == {Concat(parts) : parts \in StringsUpTo(SplitFragments, MaxParts)}

SplitInit ==
    /\ splText \in SplitTexts
    /\ splRes = <<>>
    /\ splpc = "call"

SplitCall ==
    /\ splpc = "call"
    /\ splRes' = split_summary_sections(splText)
    /\ splpc' = "done"
    /\ UNCHANGED splText
    /\ UNCHANGED <<sessVars, exVars, stVars, pdfVars, fitVars, jpgVars>>

splIdle == splText = <<>> /\ splRes = <<>> /\ splpc = "off"

--------------------------------------------------------------------------
(* Specifications                                                          *)

Init == SessInit /\ exIdle /\ stIdle /\ pdfIdle /\ fitIdle /\ jpgIdle /\ splIdle

Next ==
    \/ UserEdit
    \/ UserClear
    \/ UserRun
    \/ ScriptStart
    \/ AnalyzePhoto
    \/ Summarize
    \/ StoreReport
    \/ Display

Spec == Init /\ [][Next]_vars

InitExtract ==
    ExtractInit /\ sessIdle /\ stIdle /\ pdfIdle /\ fitIdle /\ jpgIdle /\ splIdle

NextExtract == ExtractCall

SpecExtract == InitExtract /\ [][NextExtract]_vars

InitStatus ==
    StatusInit /\ sessIdle /\ exIdle /\ pdfIdle /\ fitIdle /\ jpgIdle /\ splIdle

NextStatus == StatusCall

SpecStatus == InitStatus /\ [][NextStatus]_vars

InitPdf ==
    PdfInit /\ sessIdle /\ exIdle /\ stIdle /\ fitIdle /\ jpgIdle /\ splIdle

NextPdf ==
    \/ PdfOpen
    \/ PdfItem
    \/ PdfSummary

SpecPdf == InitPdf /\ [][NextPdf]_vars

InitFit ==
    FitInit /\ sessIdle /\ exIdle /\ stIdle /\ pdfIdle /\ jpgIdle /\ splIdle

NextFit == FitCall

SpecFit == InitFit /\ [][NextFit]_vars

InitJpg ==
    JpgInit /\ sessIdle /\ exIdle /\ stIdle /\ pdfIdle /\ fitIdle /\ splIdle

NextJpg ==
    \/ JpgCall
    \/ JpgCallAgain

SpecJpg == InitJpg /\ [][NextJpg]_vars

InitSplit ==
    SplitInit /\ sessIdle /\ exIdle /\ stIdle /\ pdfIdle /\ fitIdle /\ jpgIdle

NextSplit == SplitCall

SpecSplit == InitSplit /\ [][NextSplit]_vars

--------------------------------------------------------------------------
(* Properties of a run (specification Spec)                                *)

\* a script run whose run branch has stored its report and not yet shown it
RunFinished == pc = "display" /\ run

StoredItems == Fields(report).items

IsDiagnostic(text, e) == text = DiagnosticPrefix \o e

\* C1: a run over N uploaded photos, whichever of them raise in decoding or
\* in the provider call, stores a report of exactly N items; item k carries
\* the name of upload k; a photo that raised yields parse_ok = false, json
\* null and the diagnostic text with the error; a photo that did not raise
\* is processed normally (its image kept, its answer put through
\* extract_json) wherever it stands relative to the failed ones.
C1_EveryPhotoYieldsItsItem ==
    RunFinished =>
        /\ report # PyNone
        /\ Len(outcomes) = Len(uploaded_files)
        /\ Len(StoredItems) = Len(uploaded_files)
        /\ \A k \in 1..Len(uploaded_files) :
              LET it == StoredItems[k]
                  o  == outcomes[k]
              IN  /\ it.filename = uploaded_files[k]
                  /\ o[1] = "image_raises" =>
                        /\ ~it.parse_ok /\ it.json = PyNone
                        /\ it.image_bytes = PyNone
                        /\ IsDiagnostic(it.raw_text, ErrImage)
                  /\ o[1] = "call_raises" =>
                        /\ ~it.parse_ok /\ it.json = PyNone
                        /\ it.image_bytes = PyNone
                        /\ IsDiagnostic(it.raw_text, ErrProvider)
                  /\ o[1] = "text" =>
                        /\ it.image_bytes = JpegOf(uploaded_files[k])
                        /\ [obj |-> it.json, ok |-> it.parse_ok, raw |-> it.raw_text]
                              = extract_json(o[2])

\* C1 witness: three photos, the call for the second raises, the third is
\* analysed and parsed after it
C1_Witness ==
    /\ RunFinished
    /\ report # PyNone
    /\ Len(uploaded_files) = 3
    /\ outcomes[1][1] = "text"
    /\ outcomes[2][1] = "call_raises"
    /\ outcomes[3][1] = "text"
    /\ ~StoredItems[2].parse_ok
    /\ StoredItems[3].parse_ok
    /\ IsDict(StoredItems[3].json)

\* C2: when the summary call raises the run still completes: the report is
\* stored and marked ready, its items are the items of the loop, unchanged,
\* and its summary text is the placeholder message followed by the error.
C2_SummaryFailureStillStoresReport ==
    (RunFinished /\ sumOutcome = <<"call_raises">>) =>
        /\ report # PyNone
        /\ analise_pronta
        /\ Len(StoredItems) = Len(uploaded_files)
        /\ \A k \in 1..Len(uploaded_files) :
              StoredItems[k] = ItemFor(uploaded_files[k], outcomes[k])
        /\ Fields(report).summary.text = SummaryPlaceholder \o ErrProvider
        /\ Fields(report).meta.n_images = Len(uploaded_files)

\* C2 witness: a finished run of two photos or more whose summary call raised
C2_Witness ==
    /\ RunFinished
    /\ sumOutcome = <<"call_raises">>
    /\ analise_pronta
    /\ report # PyNone
    /\ Len(uploaded_files) >= 2
    /\ \E k \in 1..Len(uploaded_files) : outcomes[k][1] = "text"

\* C7 (as claimed): in every stored report, an item has a structured record
\* (a JSON object) exactly when its parse_ok is true.
C7_StructuredIffParseOk ==
    report # PyNone =>
        \A k \in 1..Len(StoredItems) :
            StoredItems[k].parse_ok <=>
                (StoredItems[k].json # PyNone /\ IsDict(StoredItems[k].json))

\* C8: the stored report and the ready flag change only wholesale and only
\* in three kinds of step: the clear button (to None / false), the start of
\* a run (to None / false) and the end of a run (to a complete new report /
\* true).  Every other step - a script run with neither button, the display
\* section, a PDF rendering that fails - leaves both unchanged.
C8_ReportOnlyReplacedWholesale ==
    [][ (report' # report \/ analise_pronta' # analise_pronta) =>
           \/ /\ pc = "idle" /\ event' = "clear"
              /\ report' = PyNone /\ ~analise_pronta'
           \/ /\ pc = "start" /\ event = "run" /\ run'
              /\ report' = PyNone /\ ~analise_pronta'
           \/ /\ pc = "assemble" /\ run
              /\ report' # PyNone /\ analise_pronta'
              /\ Len(Fields(report').items) = Len(uploaded_files)
              /\ Fields(report').meta.n_images = Len(uploaded_files)
              /\ Fields(report').summary.text = summary_text
      ]_vars

\* C8 witness: a script run has ended in which PDF rendering failed with the
\* caught error, and the report is still stored and ready
C8_Witness ==
    /\ pc = "idle"
    /\ shown = "report_and_pdf_error"
    /\ report # PyNone
    /\ analise_pronta

\* the credential of this script run is missing or invalid: no key, or
\* discovery raised or found no model (model_name stays None)
CredentialInvalid == api_key = "" \/ model_name = PyNone

\* C9 (as claimed): in a script run whose credential is missing or invalid
\* the run trigger does not fire, the script goes straight to the display
\* section, no per-photo or summary call is attempted, and a failed
\* discovery is shown as a warning or an error.
C9_NoCallsWithoutCredential ==
    (pc \in {"photo", "summary", "assemble", "display"} /\ CredentialInvalid) =>
        /\ ~run
        /\ runShownDisabled
        /\ pc = "display"
        /\ calls = <<>>
        /\ api_key # "" => notice \in {"warning", "error"}

\* the calls of this script run that are summary calls
SummaryCalls == SelectSeq(calls, LAMBDA c : c[1] = "summary")

\* C13: within a run the provider calls are sequential.  The per-photo calls
\* come in upload order, at most one per photo, each for a photo whose item
\* is appended; a summary call is the last call of the run and is made only
\* when every upload has its item (analysed or fallback); when the report is
\* assembled and stored exactly one summary call has been made.
C13_CallsSequentialOneSummary ==
    /\ \A i \in 1..Len(calls) :
          /\ calls[i][1] = "photo" =>
                /\ calls[i][2] \in 1..Len(items)
                /\ \A j \in (i + 1)..Len(calls) :
                      calls[j][1] = "photo" => calls[i][2] < calls[j][2]
          /\ calls[i][1] = "summary" => i = Len(calls)
    /\ SummaryCalls # <<>> => Len(items) = Len(uploaded_files)
    /\ pc = "summary" => SummaryCalls = <<>>
    /\ (pc = "assemble" \/ (run /\ report # PyNone)) => Len(SummaryCalls) = 1

\* a finished run over three photos, the second of which failed in its call
\* and was not tried again: three photo calls, then the summary call
C13_Witness ==
    /\ RunFinished
    /\ Len(outcomes) = 3
    /\ outcomes[2][1] = "call_raises"
    /\ calls = <<<<"photo", 1>>, <<"photo", 2>>, <<"photo", 3>>, <<"summary">>>>

\* a report as main assembles it at the end of a run: one meta count per
\* item and a summary text
Complete(r) ==
    /\ Fields(r).meta.n_images = Len(Fields(r).items)
    /\ Fields(r).summary.text # PyNone

\* the ready flag and the stored report go together, a stored report is
\* complete, nothing is stored while the run branch is at work, and the
\* display section shows something only when the flag is set
ReadyMeansComplete ==
    /\ analise_pronta => report # PyNone
    /\ report # PyNone => analise_pronta /\ Complete(report)
    /\ (run /\ pc \in {"photo", "summary", "assemble"}) => ~analise_pronta
    /\ shown # "nothing" => analise_pronta

\* the flag rises only where a run stores the report it has assembled from
\* one item per upload and the summary text
ReadyOnlyByFinishedRun ==
    (~analise_pronta /\ analise_pronta') =>
        /\ run /\ pc = "assemble"
        /\ Len(items) = Len(uploaded_files)
        /\ Len(SummaryCalls) = 1
        /\ report' = BuildReport(items, summary_text, model_name)

\* C15: in every reachable session state the ready flag implies a stored,
\* complete report (item count equal to meta n_images, summary text set); no
\* partly built report is stored; and once a run has started or the clear
\* button was used the flag is down, so nothing is displayed, until a run
\* stores its finished report.
C15_ReadyImpliesCompleteReport ==
    []ReadyMeansComplete /\ [][ReadyOnlyByFinishedRun]_vars

\* a run over two photos has finished and its report is on display
C15_Witness ==
    /\ analise_pronta
    /\ shown = "report_and_pdf"
    /\ pc = "idle"
    /\ Len(Fields(report).items) = 2

--------------------------------------------------------------------------
(* Properties of extract_json (specification SpecExtract)                  *)

Extracted == expc = "done" /\ exText # PyNone

Chars(s) == {s[k] : k \in 1..Len(s)}

\* the text is a JSON object
IsObjectText(t) == JsonLoads(t).ok /\ IsDict(JsonLoads(t).val)

\* text around the data that is not JSON itself
IsProse(p) == p = <<>> \/ ~JsonLoads(p).ok

\* the text exText is an object between a prefix and a suffix of prose, at
\* least one of them there, and is not as a whole a JSON text
WrappedObject ==
    /\ Extracted
    /\ IsObjectText(exCore)
    /\ IsProse(exPre) /\ IsProse(exSuf)
    /\ exPre # <<>> \/ exSuf # <<>>
    /\ ~JsonLoads(Strip(exText)).ok

\* C3 (as claimed): for a JSON object surrounded by arbitrary non-JSON
\* prose, extract_json returns ok = true and the embedded object.
C3_AnyProseWrapping ==
    WrappedObject => exRes.ok /\ exRes.obj = JsonLoads(exCore).val

\* C3 (amended): for a JSON object surrounded by text whose prefix holds
\* no "{" and whose suffix holds no "}", extract_json returns ok = true; the
\* record is the embedded object, unless the trimmed text is as a whole a
\* JSON text, and then it is the parse of the whole.
C3_BraceFreeProseWrapping ==
    (Extracted /\ IsObjectText(exCore)
        /\ "{" \notin Chars(exPre) /\ "}" \notin Chars(exSuf)) =>
        /\ exRes.ok
        /\ IF JsonLoads(Strip(exText)).ok
           THEN exRes.obj = JsonLoads(Strip(exText)).val
           ELSE exRes.obj = JsonLoads(exCore).val

\* C3 witness: a nested object between two pieces of prose, recovered by
\* the scan for the braces
C3_Witness ==
    /\ WrappedObject
    /\ Chars(exPre) \ PyWs # {} /\ Chars(exSuf) \ PyWs # {}
    /\ "{" \notin Chars(exPre) /\ "}" \notin Chars(exSuf)
    /\ Cardinality(Positions(exCore, "{")) >= 2
    /\ exRes.ok
    /\ exRes.obj = JsonLoads(exCore).val

\* no part of the text can be recovered as structured data: the text is not
\* JSON and no stretch of it from a "{" to a "}" is
NoRecoverableBlock(t) ==
    /\ ~JsonLoads(t).ok
    /\ \A a \in Positions(t, "{"), b \in Positions(t, "}") :
          a < b => ~JsonLoads(SubSeq(t, a, b)).ok

\* C4 (as claimed): for a text with no recoverable structured block,
\* extract_json returns ok = false, a null record and the input text
\* itself, character for character, leading and trailing whitespace kept.
C4_OriginalTextUnmodified ==
    (Extracted /\ NoRecoverableBlock(exText)) =>
        /\ ~exRes.ok
        /\ exRes.obj = PyNone
        /\ exRes.raw = exText

\* C5: for a text that is as a whole a JSON text, extract_json returns
\* ok = true and the parse of the whole text, also when a stretch from a
\* "{" to a "}" inside it would parse to something else: the whole-text
\* parse comes first.
C5_WholeInputParseWins ==
    (Extracted /\ JsonLoads(exText).ok) =>
        /\ exRes.ok
        /\ exRes.obj = JsonLoads(exText).val

\* C5 witness: a JSON text that is no object and holds one, returned whole
C5_Witness ==
    /\ Extracted
    /\ JsonLoads(exText).ok
    /\ ~IsDict(JsonLoads(exText).val)
    /\ JsonLoads(BraceMatch(exText)).ok
    /\ exRes.ok
    /\ exRes.obj = JsonLoads(exText).val
    /\ exRes.obj # JsonLoads(BraceMatch(exText)).val

--------------------------------------------------------------------------
(* Properties of format_status (specification SpecStatus)                  *)

Formatted == stpc = "done"

Shown(dot, label) == <<dot, " ">> \o label

FourDisplayLabels ==
    { Shown(DotGreen, LabelBom), Shown(DotYellow, LabelRegular),
      Shown(DotRed, LabelRuim), Shown(DotWhite, LabelNaoIdentificavel) }

StatusEmptyOrMissing == stValue = PyNone \/ stValue = <<>>

\* C6 (as claimed): for every value - a recognized code, an unrecognized
\* string, the empty string, a missing value - the result is one of the
\* four display labels, and the non-identifiable label for every value that
\* is no recognized code.
C6_AlwaysOneOfFourLabels ==
    Formatted =>
        /\ stRes \in FourDisplayLabels
        /\ stBase \notin StatusCodes =>
              stRes = Shown(DotWhite, LabelNaoIdentificavel)

\* C6 (amended): format_status never fails; a value that is one of the four
\* codes, whatever its casing and the whitespace around it, gives the label
\* of that code; the empty string and a missing value give the empty
\* string; any other value gives the white dot followed by the value
\* itself, trimmed and lower-cased, not the non-identifiable label.
C6_LabelOrValuePassedThrough ==
    Formatted =>
        /\ StatusEmptyOrMissing => stRes = <<>>
        /\ ~StatusEmptyOrMissing =>
              /\ stBase = Verde => stRes = Shown(DotGreen, LabelBom)
              /\ stBase = Amarelo => stRes = Shown(DotYellow, LabelRegular)
              /\ stBase = Vermelho => stRes = Shown(DotRed, LabelRuim)
              /\ stBase = NaoIdentificavel =>
                    stRes = Shown(DotWhite, LabelNaoIdentificavel)
              /\ stBase \notin StatusCodes => stRes = Shown(DotWhite, stBase)

\* C6 witness: an unrecognized word, upper-cased and padded, comes back
\* lower-cased and trimmed behind the white dot
C6_Witness ==
    /\ Formatted
    /\ stBase = <<"b", "o", "m">>
    /\ stValue = <<" ", "B", "O", "M", "\t">>
    /\ stRes = <<DotWhite, " ", "b", "o", "m">>

--------------------------------------------------------------------------
(* Properties of build_pdf_bytes (specification SpecPdf)                   *)

PdfItemList == Fields(pdfReport).items

\* the raw text of an item as a str: empty when the field is missing or None
RawTextOf(item) ==
    IF "raw_text" \in DOMAIN item /\ item.raw_text # PyNone
    THEN item.raw_text ELSE <<>>

\* the flowable is a paragraph of this markup
IsParagraph(block, markup) ==
    block[1] = "Paragraph" /\ block[2] = markup

IsSpacer(block) == block[1] = "Spacer"

\* the section ends, before a page break if any, with the notice, a spacer
\* and the first min(len, RawLimit) characters of raw, escaped
EndsWithFallback(section, raw) ==
    LET n    == IF section[Len(section)][1] = "PageBreak"
                THEN Len(section) - 1 ELSE Len(section)
        kept == IF Len(raw) <= RawLimit THEN Len(raw) ELSE RawLimit
    IN  /\ n >= 3
        /\ section[n - 2] = FallbackNotice
        /\ IsSpacer(section[n - 1])
        /\ IsParagraph(section[n], safe_p(SubSeq(raw, 1, kept)))

\* C10: for every item with parse_ok = false, whatever its raw_text (empty,
\* None or missing too) and with or without image bytes, build_pdf_bytes
\* does not raise on that item and appends for it the fallback notice
\* followed by the raw text cut to its first 3000 characters, and no table.
C10_FallbackForUnparsedItems ==
    (pdfpc # "off") =>
        /\ pdfpc = "raised" =>
              PdfItemList[Len(pdfSections) + 1].parse_ok
        /\ \A k \in 1..Len(pdfSections) :
              ~PdfItemList[k].parse_ok =>
                  /\ EndsWithFallback(pdfSections[k], RawTextOf(PdfItemList[k]))
                  /\ \A b \in 1..Len(pdfSections[k]) :
                        pdfSections[k][b][1] # "Table"

\* C10 witness: a PDF was built from a report with an unparsed item that has
\* its image and more than 3000 characters of raw text, and an unparsed item
\* without raw_text
C10_Witness ==
    /\ pdfpc = "done"
    /\ \E k \in 1..Len(PdfItemList) :
          /\ ~PdfItemList[k].parse_ok
          /\ PdfItemList[k].image_bytes # PyNone
          /\ Len(RawTextOf(PdfItemList[k])) > RawLimit
          /\ pdfSections[k][3][1] = "Image"
          /\ EndsWithFallback(pdfSections[k], RawTextOf(PdfItemList[k]))
    /\ \E k \in 1..Len(PdfItemList) :
          /\ ~PdfItemList[k].parse_ok
          /\ "raw_text" \notin DOMAIN PdfItemList[k]

--------------------------------------------------------------------------
(* Properties of fit_image_preserve_aspect (specification SpecFit)         *)

Fitted == fitpc = "done"

\* drawn height / drawn width = h_px / w_px, by cross-multiplication
AspectPreserved ==
    fitRes.h[1] * fitRes.w[2] * fitIn.w_px
        = fitRes.w[1] * fitRes.h[2] * fitIn.h_px

InsideBox ==
    /\ FracLeq(fitRes.w, <<fitIn.max_w, 1>>)
    /\ FracLeq(fitRes.h, <<fitIn.max_h, 1>>)

NotUpscaled ==
    /\ FracLeq(fitRes.w, <<fitIn.w_px, 1>>)
    /\ FracLeq(fitRes.h, <<fitIn.h_px, 1>>)

\* C11 as stated: the draw size keeps the aspect ratio, lies inside the box
\* (width <= max_w, height <= max_h) and is never larger than the image
\* itself.  Violated: the width starts at max_w whatever the image size, so
\* an image smaller than the box is enlarged.
C11_InsideBoxAndNeverUpscaled ==
    Fitted => AspectPreserved /\ InsideBox /\ NotUpscaled

\* C11 amended: the draw size keeps the aspect ratio, lies inside the box
\* and touches it: the width is max_w or the height is max_h, whatever the
\* image size.
C11_InsideBoxAndFillsIt ==
    Fitted =>
        /\ AspectPreserved
        /\ InsideBox
        /\ \/ fitRes.w = <<fitIn.max_w, 1>>
           \/ fitRes.h = <<fitIn.max_h, 1>>

\* an image smaller than the box, limited by the height and drawn enlarged
C11_Witness ==
    /\ Fitted
    /\ fitIn.w_px < fitIn.max_w /\ fitIn.h_px < fitIn.max_h
    /\ fitRes.h = <<fitIn.max_h, 1>>
    /\ ~FracLeq(fitRes.w, <<fitIn.w_px, 1>>)

--------------------------------------------------------------------------
(* Properties of image_to_optimized_jpeg_bytes (specification SpecJpg)     *)

\* the first call has written a JPEG
Normalized == jpgpc \in {"second", "done"}

\* C12: the size written has its longer side <= max_side and neither side
\* larger than the input's, and a second call with the same max_side on the
\* image written leaves the size unchanged.
C12_BoundedNeverUpscaledIdempotent ==
    /\ Normalized =>
          /\ Max(jpgRes[2], jpgRes[3]) <= jpgIn.max_side
          /\ jpgRes[2] <= jpgIn.w
          /\ jpgRes[3] <= jpgIn.h
    /\ jpgpc = "done" => jpgAgain = jpgRes

\* an image larger than max_side was made smaller, float rounding left its
\* longer side one pixel under max_side, and the second call has returned
C12_Witness ==
    /\ jpgpc = "done"
    /\ Max(jpgIn.w, jpgIn.h) > jpgIn.max_side
    /\ Max(jpgRes[2], jpgRes[3]) = jpgIn.max_side - 1

--------------------------------------------------------------------------
(* Properties of split_summary_sections (specification SpecSplit)          *)

Split == splpc = "done"

\* no section title occurs in the text, whatever its casing
NoMarkerIn(text) ==
    \A k \in 1..Len(SummaryKeys) :
        \A i \in 1..(Len(text) - Len(SummaryKeys[k]) + 1) :
            Lower(SubSeq(text, i, i + Len(SummaryKeys[k]) - 1))
                # Lower(SummaryKeys[k])

\* C14 as stated: every summary text, the empty and the whitespace-only one
\* included, gives at least one block, and a text without section marker
\* gives exactly one block, under the general title, holding the entire
\* text.  Violated: an empty or whitespace-only text gives no block, and the
\* block holds the text without its bold markers and outer whitespace.
C14_AtLeastOneBlockEntireText ==
    Split =>
        /\ Len(splRes) >= 1
        /\ NoMarkerIn(splText) => splRes = <<<<ResumoGeral, splText>>>>

\* C14 amended: a text that is empty once its bold markers and its outer
\* whitespace are removed (the empty and the whitespace-only text are such)
\* gives no block, every other text at least one; a text left without
\* section marker gives exactly one block, under the general title, holding
\* the text with its bold markers and outer whitespace removed.
C14_BlocksUnlessBlankStrippedText ==
    Split =>
        /\ (\A i \in 1..Len(splText) : splText[i] \in PyWs) => splRes = <<>>
        /\ strip_md(splText) = <<>> <=> splRes = <<>>
        /\ (strip_md(splText) # <<>> /\ NoMarkerIn(strip_md(splText))) =>
               splRes = <<<<ResumoGeral, strip_md(splText)>>>>

\* a text without section marker was split into one block that is not the
\* entire text
C14_Witness ==
    /\ Split
    /\ NoMarkerIn(splText)
    /\ Len(splRes) = 1
    /\ splRes[1][1] = ResumoGeral
    /\ splRes[1][2] # splText

==========================================================================
